---- MODULE Spec2Model ----
(***************************************************************************)
(* Model of backend/app.py of the LogicGuard code-review backend.          *)
(*                                                                         *)
(* The response normalizer parse_ai_response (app.py 112-150) is a pure    *)
(* function of the completion text.  Texts are sequences of one-character  *)
(* strings; json.loads and the two re.search calls are modelled by what    *)
(* they do on such sequences.  JSON values are records                     *)
(*     [t |-> kind, s |-> characters, a |-> items, o |-> members]          *)
(* so that an object, an array, a string, a number and a literal are       *)
(* different values even when they print alike.                            *)
(*                                                                         *)
(* After the normalizer come the routes that use the completion service    *)
(* and the accounts: /api/generate and /api/chat (app.py 832-1012),        *)
(* /api/analyze with concurrent requests (app.py 153-181, 261-335), and    *)
(* register, login, get_current_user and logout (app.py 538-654).  Each    *)
(* part has its own variables, initial predicate and specification; a      *)
(* specification holds the variables of the other parts at Off.            *)
(***************************************************************************)
EXTENDS Integers, Sequences, FiniteSets

VARIABLES response_text, pc, result, attempts, strategy

\* One request to /api/generate or /api/chat (app.py 832-1010).
VARIABLES gen_request, gen_prompt, gen_reply, gen_response

\* Requests to /api/analyze, handled concurrently (app.py 153-181, 261-335).
VARIABLES requests, GROQ_API_KEY, apc, frames, heap, analysis_history, answers

\* Accounts and the session of one client (app.py 538-654, models.py 14-47).
VARIABLES users, user_settings, session, registering, started, calls

\* Projects of a user and the calls made on them (app.py 659-742).
VARIABLES projects, project_calls

normalizerVars == <<response_text, pc, result, attempts, strategy>>

generateVars == <<gen_request, gen_prompt, gen_reply, gen_response>>

analyzeVars ==
    <<requests, GROQ_API_KEY, apc, frames, heap, analysis_history, answers>>

authVars == <<users, user_settings, session, registering, started, calls>>

projectVars == <<projects, project_calls>>

vars == <<normalizerVars, generateVars, analyzeVars, authVars, projectVars>>

\* The value of every variable of a part of the program that a
\* specification leaves out.
Off == "off"

GenerateOff ==
    /\ gen_request = Off
    /\ gen_prompt = Off
    /\ gen_reply = Off
    /\ gen_response = Off

AnalyzeOff ==
    /\ requests = Off
    /\ GROQ_API_KEY = Off
    /\ apc = Off
    /\ frames = Off
    /\ heap = Off
    /\ analysis_history = Off
    /\ answers = Off

ProjectsOff ==
    /\ projects = Off
    /\ project_calls = Off

AuthOff ==
    /\ users = Off
    /\ user_settings = Off
    /\ session = Off
    /\ registering = Off
    /\ started = Off
    /\ calls = Off

NormalizerOff ==
    /\ response_text = Off
    /\ pc = Off
    /\ result = Off
    /\ attempts = Off
    /\ strategy = Off

(***************************************************************************)
(* Bounds of the model.                                                    *)
(***************************************************************************)
\* longest free text, counted in pieces of Pieces
MaxPieces == 3
\* deepest nesting of the generated JSON values
MaxDepth == 1

(***************************************************************************)
(* Characters.                                                             *)
(***************************************************************************)
QUOTE == "\""
\* the backquote character, spelled out: a TLA+ string cannot hold one
TICK == "BACKTICK"
NL == "\n"
SP == " "
\* end of input, returned by At past the last character
EOF == ""

\* WHITESPACE of json.decoder: [ \t\n\r]*
JsonWs == {" ", "\t", "\n", "\r"}
\* \s of the re module, on the characters the model uses
ReWs == {" ", "\t", "\n", "\r", "\f"}
\* characters json.loads rejects inside a string (strict mode)
Control == {"\t", "\n", "\r", "\f"}
Digits == {"0", "1", "2", "3", "4", "5", "6", "7", "8", "9"}

At(s, i) == IF i \in 1..Len(s) THEN s[i] ELSE EOF

Min(S) == CHOOSE x \in S : \A y \in S : x <= y
Max(S) == CHOOSE x \in S : \A y \in S : x >= y

RECURSIVE Flatten(_)
Flatten(ss) == IF ss = <<>> THEN <<>> ELSE Head(ss) \o Flatten(Tail(ss))

(***************************************************************************)
(* JSON values, as json.loads builds them.                                 *)
(***************************************************************************)
JNum(digits) == [t |-> "num", s |-> digits, a |-> <<>>, o |-> <<>>]
JStr(chars) == [t |-> "str", s |-> chars, a |-> <<>>, o |-> <<>>]
JLit(name) == [t |-> "lit", s |-> name, a |-> <<>>, o |-> <<>>]
JArr(items) == [t |-> "arr", s |-> <<>>, a |-> items, o |-> <<>>]
\* a dict: its <<key, value>> pairs in insertion order, keys distinct
JObj(members) == [t |-> "obj", s |-> <<>>, a |-> <<>>, o |-> members]

NULL == <<"n", "u", "l", "l">>
TRUE_ == <<"t", "r", "u", "e">>
FALSE_ == <<"f", "a", "l", "s", "e">>
\* Python's None, where no JSON value was produced
None == JLit(<<>>)

Keys(members) == {members[i][1] : i \in 1..Len(members)}

\* dict[key] = value: a repeated key keeps its place and takes the new value
DictSet(members, key, value) ==
    IF key \in Keys(members)
    THEN [i \in 1..Len(members) |->
            IF members[i][1] = key THEN <<key, value>> ELSE members[i]]
    ELSE Append(members, <<key, value>>)

(***************************************************************************)
(* json.loads (app.py 119, 125, 133): the json module's scanner on the     *)
(* model's characters.  The texts of the model hold no backslash, sign,    *)
(* fraction or exponent and none of NaN and Infinity, so escapes, floats   *)
(* and those literals never come up.  An outcome is [k, v, e]: k is "ok"   *)
(* or the exception raised, v the value, e the index after it.             *)
(***************************************************************************)
\* sys.int_info.default_max_str_digits: int() of a longer literal raises
\* ValueError, which is not a JSONDecodeError
INT_MAX_STR_DIGITS == 4300

Ok(value, end) == [k |-> "ok", v |-> value, e |-> end]
JSONDecodeError == [k |-> "JSONDecodeError", v |-> None, e |-> 0]
ValueError == [k |-> "ValueError", v |-> None, e |-> 0]

\* s[i..j], cut at the end of s
Slice(s, i, j) == SubSeq(s, i, IF j > Len(s) THEN Len(s) ELSE j)

RECURSIVE SkipWs(_, _)
SkipWs(s, i) == IF At(s, i) \in JsonWs THEN SkipWs(s, i + 1) ELSE i

\* py_scanstring from the opening quote at i
scanstring(s, i) ==
    LET close == {j \in (i + 1)..Len(s) : s[j] = QUOTE}
    IN  IF close = {} THEN JSONDecodeError
        ELSE LET c == Min(close)
             IN  IF \E j \in (i + 1)..(c - 1) : s[j] \in Control
                 THEN JSONDecodeError
                 ELSE Ok(JStr(SubSeq(s, i + 1, c - 1)), c + 1)

\* NUMBER_RE (0|[1-9]\d*) at i, then int() of the digits
JSONNumber(s, i) ==
    IF s[i] = "0" THEN Ok(JNum(<<"0">>), i + 1)
    ELSE LET stop == {j \in i..Len(s) : s[j] \notin Digits}
             e == IF stop = {} THEN Len(s) + 1 ELSE Min(stop)
         IN  IF e - i > INT_MAX_STR_DIGITS THEN ValueError
             ELSE Ok(JNum(SubSeq(s, i, e - 1)), e)

RECURSIVE scan_once(_, _), JSONObject(_, _, _, _), JSONArray(_, _, _, _)

\* i is the first non-blank index after "{" (first) or after ","
JSONObject(s, i, pairs, first) ==
    IF first /\ At(s, i) = "}" THEN Ok(JObj(pairs), i + 1)
    ELSE IF At(s, i) # QUOTE THEN JSONDecodeError
    ELSE LET key == scanstring(s, i)
         IN  IF key.k # "ok" THEN key
             ELSE LET j == SkipWs(s, key.e)
                  IN  IF At(s, j) # ":" THEN JSONDecodeError
                      ELSE LET val == scan_once(s, SkipWs(s, j + 1))
                           IN  IF val.k # "ok" THEN val
                               ELSE LET n == SkipWs(s, val.e)
                                        pairs2 == DictSet(pairs, key.v.s, val.v)
                                    IN  CASE At(s, n) = "}" -> Ok(JObj(pairs2), n + 1)
                                          [] At(s, n) = "," ->
                                               JSONObject(s, SkipWs(s, n + 1), pairs2, FALSE)
                                          [] OTHER -> JSONDecodeError

\* i is the first non-blank index after "[" (first) or after ","
JSONArray(s, i, values, first) ==
    IF first /\ At(s, i) = "]" THEN Ok(JArr(values), i + 1)
    ELSE LET val == scan_once(s, i)
         IN  IF val.k # "ok" THEN val
             ELSE LET n == SkipWs(s, val.e)
                      values2 == Append(values, val.v)
                  IN  CASE At(s, n) = "]" -> Ok(JArr(values2), n + 1)
                        [] At(s, n) = "," ->
                             JSONArray(s, SkipWs(s, n + 1), values2, FALSE)
                        [] OTHER -> JSONDecodeError

scan_once(s, i) ==
    LET c == At(s, i)
    IN  CASE c = QUOTE -> scanstring(s, i)
          [] c = "{" -> JSONObject(s, SkipWs(s, i + 1), <<>>, TRUE)
          [] c = "[" -> JSONArray(s, SkipWs(s, i + 1), <<>>, TRUE)
          [] c = "n" /\ Slice(s, i, i + 3) = NULL -> Ok(JLit(NULL), i + 4)
          [] c = "t" /\ Slice(s, i, i + 3) = TRUE_ -> Ok(JLit(TRUE_), i + 4)
          [] c = "f" /\ Slice(s, i, i + 4) = FALSE_ -> Ok(JLit(FALSE_), i + 5)
          [] c \in Digits -> JSONNumber(s, i)
          [] OTHER -> JSONDecodeError

\* JSONDecoder.decode: one value, blanks around it, nothing else
loads(s) ==
    LET r == scan_once(s, SkipWs(s, 1))
    IN  IF r.k # "ok" THEN r
        ELSE IF SkipWs(s, r.e) # Len(s) + 1 THEN JSONDecodeError
        ELSE r

(***************************************************************************)
(* The two searches of parse_ai_response.  A match is [found, group, stop]. *)
(***************************************************************************)
\* stop is the index after the match (match.end() + 1)
NoMatch == [found |-> FALSE, group |-> <<>>, stop |-> 0]
Match(g, stop) == [found |-> TRUE, group |-> g, stop |-> stop]

JSON_TAG == <<"j", "s", "o", "n">>

\* where three backquotes start
Fences(text) ==
    {i \in 1..(Len(text) - 2) :
        text[i] = TICK /\ text[i + 1] = TICK /\ text[i + 2] = TICK}

RECURSIVE SkipReWs(_, _)
SkipReWs(s, i) == IF At(s, i) \in ReWs THEN SkipReWs(s, i + 1) ELSE i

\* pattern.search(text, start - 1) for r'```(?:json)?\s*([\s\S]*?)\s*```',
\* group(1): the leftmost opening fence from start on, the optional tag and
\* the blanks after it, then lazily up to the blanks before the next fence
FencedBlockSearchFrom(text, start) ==
    LET fences == {i \in Fences(text) : i >= start}
    IN  IF fences = {} THEN NoMatch
        ELSE LET open == Min(fences)
                 tagged == Slice(text, open + 3, open + 6) = JSON_TAG
                 b == SkipReWs(text, IF tagged THEN open + 7 ELSE open + 3)
                 closing == {c \in fences : c >= b}
             IN  IF closing = {} THEN NoMatch
                 ELSE LET c == Min(closing)
                          e == Min({k \in b..c :
                                      \A j \in k..(c - 1) : text[j] \in ReWs})
                      IN  Match(SubSeq(text, b, e - 1), c + 3)

\* variant: a search that moves on to the next block when the first block
\* does not parse
FencedBlockSearchNextBlock(text) ==
    LET m1 == FencedBlockSearchFrom(text, 1)
        m2 == FencedBlockSearchFrom(text, m1.stop)
    IN  IF m1.found /\ loads(m1.group).k # "ok" /\ m2.found THEN m2 ELSE m1

\* re.search(r'```(?:json)?\s*([\s\S]*?)\s*```', text)
FencedBlockSearch(text) == FencedBlockSearchFrom(text, 1)

\* re.search(r'\{[\s\S]*\}', text), group(0): greedy, from the first "{"
\* to the last "}"
BraceSpanSearch(text) ==
    LET opens == {i \in 1..Len(text) : text[i] = "{"}
        closes == {i \in 1..Len(text) : text[i] = "}"}
    IN  IF opens = {} \/ closes = {} THEN NoMatch
        ELSE IF Max(closes) < Min(opens) THEN NoMatch
        ELSE Match(SubSeq(text, Min(opens), Max(closes)), Max(closes) + 1)

(***************************************************************************)
(* The default response of parse_ai_response (app.py 138-150).             *)
(***************************************************************************)
K_score == <<"s", "c", "o", "r", "e">>
K_summary == <<"s", "u", "m", "m", "a", "r", "y">>
K_bugs == <<"b", "u", "g", "s">>
K_optimizations == <<"o", "p", "t", "i", "m", "i", "z", "a", "t", "i", "o", "n", "s">>
K_positives == <<"p", "o", "s", "i", "t", "i", "v", "e", "s">>
K_metrics == <<"m", "e", "t", "r", "i", "c", "s">>
AnalysisFields ==
    {K_score, K_summary, K_bugs, K_optimizations, K_positives, K_metrics}

HasAllFields(v) == v.t = "obj" /\ AnalysisFields \subseteq Keys(v.o)

FallbackSummary ==
    <<"U", "n", "a", "b", "l", "e", " ", "t", "o", " ", "f", "u", "l", "l",
        "y", " ", "p", "a", "r", "s", "e", " ", "t", "h", "e", " ", "A", "I",
        " ", "r", "e", "s", "p", "o", "n", "s", "e", ".", " ", "P", "l", "e",
        "a", "s", "e", " ", "t", "r", "y", " ", "a", "g", "a", "i", "n",
        ".">>
FallbackPositive ==
    <<"C", "o", "d", "e", " ", "w", "a", "s", " ", "s", "u", "b", "m", "i",
        "t", "t", "e", "d", " ", "s", "u", "c", "c", "e", "s", "s", "f", "u",
        "l", "l", "y">>

\* variant: a default response with another score
DefaultResponseScoreZero ==
    JObj(<< <<K_score, JNum(<<"0">>)>>,
            <<K_summary, JStr(FallbackSummary)>>,
            <<K_bugs, JArr(<<>>)>>,
            <<K_optimizations, JArr(<<>>)>>,
            <<K_positives, JArr(<<JStr(FallbackPositive)>>)>>,
            <<K_metrics, JObj(<<>>)>> >>)

\* variant: a default response that lost its metrics
DefaultResponseNoMetrics ==
    JObj(<< <<K_score, JNum(<<"5", "0">>)>>,
            <<K_summary, JStr(FallbackSummary)>>,
            <<K_bugs, JArr(<<>>)>>,
            <<K_optimizations, JArr(<<>>)>>,
            <<K_positives, JArr(<<JStr(FallbackPositive)>>)>> >>)

DefaultResponse ==
    JObj(<< <<K_score, JNum(<<"5", "0">>)>>,
            <<K_summary, JStr(FallbackSummary)>>,
            <<K_bugs, JArr(<<>>)>>,
            <<K_optimizations, JArr(<<>>)>>,
            <<K_positives, JArr(<<JStr(FallbackPositive)>>)>>,
            <<K_metrics,
              JObj(<< <<<<"c", "o", "m", "p", "l", "e", "x", "i", "t", "y">>,
                  JStr(<<"m", "e", "d", "i", "u", "m">>)>>,
                      <<<<"r", "e", "a", "d", "a", "b", "i", "l", "i", "t",
                          "y">>, JNum(<<"5", "0">>)>>,
                      <<<<"m", "a", "i", "n", "t", "a", "i", "n", "a", "b",
                          "i", "l", "i", "t", "y">>, JNum(<<"5", "0">>)>>,
                      <<<<"s", "e", "c", "u", "r", "i", "t", "y">>, JNum(<<"5", "0">>)>> >>)>> >>)

(***************************************************************************)
(* parse_ai_response (app.py 112-150).  The outcome records how the call   *)
(* ended (pc), the value returned, the texts handed to json.loads in       *)
(* order (attempts) and the step that produced the value (strategy).       *)
(* Only json.JSONDecodeError is caught: any other exception of json.loads  *)
(* leaves the function.                                                    *)
(***************************************************************************)
Returned(value, tried, how) ==
    [pc |-> "returned", result |-> value, attempts |-> tried, strategy |-> how]
Raised(tried, how) ==
    [pc |-> "raised", result |-> None, attempts |-> tried, strategy |-> how]

\* lines 129-150: the brace span, then the default response
BraceSpanStep(text, tried) ==
    LET m == BraceSpanSearch(text)
        r == loads(m.group)
        tried2 == Append(tried, m.group)
    IN  IF ~m.found THEN Returned(DefaultResponse, tried, "fallback")
        ELSE CASE r.k = "ok" -> Returned(r.v, tried2, "brace")
               [] r.k = "JSONDecodeError" ->
                    Returned(DefaultResponse, tried2, "fallback")
               [] OTHER -> Raised(tried2, "brace")

\* lines 121-127: the first fenced block, then the brace span
FencedBlockStep(text, tried) ==
    LET m == FencedBlockSearch(text)
        r == loads(m.group)
        tried2 == Append(tried, m.group)
    IN  IF ~m.found THEN BraceSpanStep(text, tried)
        ELSE CASE r.k = "ok" -> Returned(r.v, tried2, "fenced")
               [] r.k = "JSONDecodeError" -> BraceSpanStep(text, tried2)
               [] OTHER -> Raised(tried2, "fenced")

\* variant: a normalizer that tries the brace span before the fenced block
parse_ai_response_brace_first(text) ==
    LET r == loads(text)
        b == BraceSpanSearch(text)
        rb == loads(b.group)
    IN  CASE r.k = "ok" -> Returned(r.v, <<text>>, "direct")
          [] r.k = "JSONDecodeError" ->
               IF b.found /\ rb.k = "ok"
               THEN Returned(rb.v, <<text, b.group>>, "brace")
               ELSE FencedBlockStep(text, <<text>>)
          [] OTHER -> Raised(<<text>>, "direct")

\* variant: a normalizer that validates the schema and fills in the default
parse_ai_response_validating(text) ==
    LET r == loads(text)
    IN  CASE r.k = "ok" ->
               Returned(IF HasAllFields(r.v) THEN r.v ELSE DefaultResponse,
                        <<text>>, "direct")
          [] r.k = "JSONDecodeError" -> FencedBlockStep(text, <<text>>)
          [] OTHER -> Raised(<<text>>, "direct")

parse_ai_response(text) ==
    LET r == loads(text)
    IN  CASE r.k = "ok" -> Returned(r.v, <<text>>, "direct")
          [] r.k = "JSONDecodeError" -> FencedBlockStep(text, <<text>>)
          [] OTHER -> Raised(<<text>>, "direct")

(***************************************************************************)
(* The completion texts the model feeds to the normalizer.                 *)
(***************************************************************************)
\* json.dumps(v, separators=(itemsep, keysep))
RECURSIVE dumps(_, _, _), DumpItems(_, _, _), DumpPairs(_, _, _)
DumpItems(items, itemsep, keysep) ==
    IF items = <<>> THEN <<>>
    ELSE dumps(Head(items), itemsep, keysep)
         \o (IF Len(items) > 1 THEN itemsep ELSE <<>>)
         \o DumpItems(Tail(items), itemsep, keysep)
DumpPairs(pairs, itemsep, keysep) ==
    IF pairs = <<>> THEN <<>>
    ELSE <<QUOTE>> \o Head(pairs)[1] \o <<QUOTE>> \o keysep
         \o dumps(Head(pairs)[2], itemsep, keysep)
         \o (IF Len(pairs) > 1 THEN itemsep ELSE <<>>)
         \o DumpPairs(Tail(pairs), itemsep, keysep)
dumps(v, itemsep, keysep) ==
    CASE v.t = "str" -> <<QUOTE>> \o v.s \o <<QUOTE>>
      [] v.t = "arr" -> <<"[">> \o DumpItems(v.a, itemsep, keysep) \o <<"]">>
      [] v.t = "obj" -> <<"{">> \o DumpPairs(v.o, itemsep, keysep) \o <<"}">>
      [] OTHER -> v.s

Compact(v) == dumps(v, <<",">>, <<":">>)
Spaced(v) == dumps(v, <<",", SP>>, <<":", SP>>)

ONE == JNum(<<"1">>)
Scalars ==
    {ONE, JNum(<<"1", "0">>), JStr(<<"a">>), JStr(<<TICK, TICK, TICK>>),
     JStr(<<TICK, TICK, TICK, "1", TICK, TICK, TICK>>), JLit(NULL), JLit(TRUE_)}

\* a complete analysis, every field of AnalysisResult present
FullAnalysis ==
    JObj(<< <<K_score, JNum(<<"8", "5">>)>>,
            <<K_summary, JStr(<<"G", "o", "o", "d">>)>>,
            <<K_bugs, JArr(<<>>)>>,
            <<K_optimizations, JArr(<<>>)>>,
            <<K_positives, JArr(<<JStr(<<"c", "l", "e", "a", "n">>)>>)>>,
            <<K_metrics, JObj(<< <<K_score, ONE>> >>)>> >>)

RECURSIVE ValuesOfDepth(_)
ValuesOfDepth(d) ==
    IF d = 0 THEN Scalars \cup {JArr(<<>>), JObj(<<>>)}
    ELSE LET V == ValuesOfDepth(d - 1)
         IN  V \cup {JArr(<<v>>) : v \in V}
               \cup {JObj(<< <<(<<"a">>), v>> >>) : v \in V}
               \cup {JObj(<< <<(<<"a">>), v>>, <<(<<"b">>), w>> >>) :
                        v \in {ONE, JStr(<<TICK, TICK, TICK>>)}, w \in Scalars}

JsonValues == ValuesOfDepth(MaxDepth) \cup {FullAnalysis, DefaultResponse}
JsonObjects == {v \in JsonValues : v.t = "obj"}

\* a value with the text it is written as
Written(v, text) == [v |-> v, text |-> text]
JsonCases ==
    {Written(v, Compact(v)) : v \in JsonValues}
      \cup {Written(v, <<SP>> \o Spaced(v) \o <<NL>>) : v \in JsonValues}

\* ```json, newline, s, newline, ```
Wrap(s) == <<TICK, TICK, TICK>> \o JSON_TAG \o <<NL>> \o s
             \o <<NL, TICK, TICK, TICK>>

\* prose without a brace or a fence
Prose ==
    {<<>>, <<"a", SP>>, <<SP, "a">>, <<"1", SP>>, <<NL>>, <<QUOTE>>,
     <<"[">>, <<"]">>}

\* prose, one JSON object, prose
Embedded(pre, v, post) ==
    [v |-> v, pre |-> pre, post |-> post, text |-> pre \o Compact(v) \o post]
EmbeddedCases ==
    {Embedded(pre, v, post) : pre \in Prose, post \in Prose, v \in JsonObjects}

\* two JSON objects with prose before, between and after them
ObjA == JObj(<< <<(<<"a">>), ONE>> >>)
ObjB == JObj(<< <<(<<"b">>), ONE>> >>)
FewObjects == {JObj(<<>>), ObjA, JObj(<< <<(<<"a">>), JObj(<<>>)>> >>)}
FewProse == {<<>>, <<"a", SP>>, <<QUOTE>>}
Between == {<<>>, <<SP>>, <<",">>, <<SP, "a", SP>>, <<NL>>}
TwoObjects(pre, v, mid, w, post) ==
    [v |-> v, w |-> w, pre |-> pre, mid |-> mid, post |-> post,
     text |-> pre \o Compact(v) \o mid \o Compact(w) \o post]
TwoObjectCases ==
    {TwoObjects(pre, v, mid, w, post) :
        pre \in FewProse, v \in FewObjects, mid \in Between,
        w \in FewObjects, post \in FewProse}

\* one or two fenced blocks in prose
FENCE == <<TICK, TICK, TICK>>
Block(tag, blank, content) == FENCE \o tag \o blank \o content \o blank \o FENCE
BrokenJson == <<"{", QUOTE, "a", QUOTE, ":">>
BlockTags == {<<>>, JSON_TAG, <<"p", "y">>}
BlockBlanks == {<<>>, <<NL>>}
BlockContents ==
    {Compact(ObjA), Compact(JArr(<<ONE>>)), Compact(JStr(<<"a">>)),
     Compact(JObj(<< <<(<<"a">>), JStr(FENCE)>> >>)),
     BrokenJson, <<"a">>, <<>>}
BeforeBlock == {<<>>, <<"a", SP>>, Compact(ObjB) \o <<SP>>}
AfterBlock ==
    {<<>>, <<SP>> \o Compact(ObjB), <<SP, "}">>}
      \cup {<<NL>> \o Block(<<>>, <<NL>>, c) :
               c \in {Compact(ObjB), Compact(JArr(<<ONE>>)), BrokenJson}}
FencedTexts ==
    {pre \o Block(tag, blank, c) \o post :
        pre \in BeforeBlock, tag \in BlockTags, blank \in BlockBlanks,
        c \in BlockContents, post \in AfterBlock}

\* free texts: up to MaxPieces pieces in any order
Pieces ==
    {FENCE, <<TICK>>, JSON_TAG, <<NL>>, <<SP>>, <<"{">>, <<"}">>, <<"[">>,
     <<"]">>, <<QUOTE>>, <<",">>, <<"1">>, <<"a">>, Compact(ObjA)}
FreeTexts ==
    {Flatten(ps) : ps \in UNION {[1..k -> Pieces] : k \in 0..MaxPieces}}

\* integer literals at and just past the interpreter's digit limit
Repeat(c, n) == [i \in 1..n |-> c]
LongIntTexts ==
    {Repeat("1", INT_MAX_STR_DIGITS), Repeat("1", INT_MAX_STR_DIGITS + 1)}

ResponseTexts ==
    {c.text : c \in JsonCases} \cup {Wrap(c.text) : c \in JsonCases}
      \cup {c.text : c \in EmbeddedCases} \cup {c.text : c \in TwoObjectCases}
      \cup FencedTexts \cup FreeTexts \cup LongIntTexts

(***************************************************************************)
(* The state machine: one call of parse_ai_response on a text.  The         *)
(* function takes any string; analyze_code_with_ai (app.py 177-178) hands  *)
(* it the stripped completion text.                                        *)
(***************************************************************************)
Init ==
    /\ response_text \in ResponseTexts
    /\ pc = "called"
    /\ result = None
    /\ attempts = <<>>
    /\ strategy = "none"
    /\ GenerateOff
    /\ AnalyzeOff
    /\ AuthOff
    /\ ProjectsOff

ParseAiResponse ==
    /\ pc = "called"
    /\ LET r == parse_ai_response(response_text)
       IN  /\ pc' = r.pc
           /\ result' = r.result
           /\ attempts' = r.attempts
           /\ strategy' = r.strategy
    /\ UNCHANGED response_text
    /\ UNCHANGED <<generateVars, analyzeVars, authVars, projectVars>>

Next == ParseAiResponse

Spec == Init /\ [][Next]_vars

TypeOK ==
    /\ pc \in {"called", "returned", "raised"}
    /\ strategy \in {"none", "direct", "fenced", "brace", "fallback"}

(***************************************************************************)
(* Properties of the normalizer.                                           *)
(***************************************************************************)
Done == pc # "called"

\* C1: parse_ai_response is total: whatever text it is given, and whichever
\* of the direct, fenced-block and brace-span parses fail, the call returns
\* a value and never raises.
C1_NeverRaises == pc # "raised"

\* C2 as stated: for every input text the returned value holds all six
\* AnalysisResult fields.
C2_AlwaysAllFields == pc = "returned" => HasAllFields(result)

\* C2, amended: when every parse attempt of the call fails with a JSON
\* decode error, the returned object holds all six AnalysisResult fields.
C2_UnparsedHasAllFields ==
    (/\ pc = "returned"
     /\ \A i \in 1..Len(attempts) : loads(attempts[i]).k = "JSONDecodeError")
        => HasAllFields(result)

\* all three parses were tried, all failed, and the default came back
C2_Witness ==
    /\ pc = "returned"
    /\ Len(attempts) = 3
    /\ \A i \in 1..3 : loads(attempts[i]).k = "JSONDecodeError"
    /\ HasAllFields(result)

\* C3: the result of the normalizer is always a JSON object, never an
\* array, a number, a string, a boolean or null, also when the whole text is
\* valid JSON of one of those kinds.
C3_ResultIsObject == pc = "returned" => result.t = "obj"

\* C4: a text that is, as a whole, a valid JSON object comes back as exactly
\* that object, with no field checked, filled in or removed.
C4_ObjectReturnedAsIs ==
    \A c \in JsonCases :
        (Done /\ c.v.t = "obj" /\ response_text = c.text)
            => (pc = "returned" /\ result = c.v /\ strategy = "direct")

\* an object that lacks AnalysisResult fields came back as it was written
C4_Witness ==
    \E c \in JsonCases :
        /\ pc = "returned" /\ c.v.t = "obj" /\ response_text = c.text
        /\ result = c.v
        /\ ~HasAllFields(c.v)
        /\ c.v.o # <<>>

\* the texts the three steps would parse, in the order of the code
Planned(text) ==
    LET f == FencedBlockSearch(text)
        b == BraceSpanSearch(text)
    IN  <<text>> \o (IF f.found THEN <<f.group>> ELSE <<>>)
                 \o (IF b.found THEN <<b.group>> ELSE <<>>)

Parses(text) == loads(text).k = "ok"

\* C5: the parses are tried in the order direct, first fenced block, brace
\* span, and the first that succeeds decides the result: a fenced block that
\* parses wins over whatever the brace span would give, and the default
\* response comes back only when all three fail.
C5_FirstSuccessWins ==
    pc = "returned" =>
        LET text == response_text
            f == FencedBlockSearch(text)
            b == BraceSpanSearch(text)
            n == Len(attempts)
        IN  /\ n >= 1
            /\ attempts = SubSeq(Planned(text), 1, n)
            /\ \A i \in 1..(n - 1) : ~Parses(attempts[i])
            /\ strategy # "fallback"
                 => (Parses(attempts[n]) /\ result = loads(attempts[n]).v)
            /\ (~Parses(text) /\ f.found /\ Parses(f.group))
                 => (strategy = "fenced" /\ result = loads(f.group).v)
            /\ strategy = "fallback"
                 => /\ result = DefaultResponse
                    /\ attempts = Planned(text)
                    /\ \A i \in 1..n : ~Parses(attempts[i])

\* the fenced block decided although the brace span parses to another value
C5_Witness ==
    LET b == BraceSpanSearch(response_text)
    IN  /\ pc = "returned"
        /\ strategy = "fenced"
        /\ b.found
        /\ Parses(b.group)
        /\ loads(b.group).v # result

\* the fenced block after the first one
SecondBlock(text) ==
    FencedBlockSearchFrom(text, FencedBlockSearchFrom(text, 1).stop)

\* C6: of several fenced blocks only the first is tried: when its content
\* is not valid JSON no later block is parsed, and the normalizer goes on to
\* the brace span of the whole text.
C6_OnlyFirstBlockTried ==
    LET text == response_text
        f == FencedBlockSearchFrom(text, 1)
        b == BraceSpanSearch(text)
    IN  (/\ Done
         /\ loads(text).k = "JSONDecodeError"
         /\ f.found
         /\ SecondBlock(text).found
         /\ loads(f.group).k = "JSONDecodeError")
            => /\ pc = "returned"
               /\ attempts = <<text, f.group>>
                               \o (IF b.found THEN <<b.group>> ELSE <<>>)
               /\ strategy \in {"brace", "fallback"}
               /\ strategy = "brace" => result = loads(b.group).v
               /\ strategy = "fallback" => result = DefaultResponse

\* the second block holds valid JSON, the first does not, and the default
\* response came back
C6_Witness ==
    LET text == response_text
        f == FencedBlockSearchFrom(text, 1)
    IN  /\ pc = "returned"
        /\ f.found
        /\ ~Parses(f.group)
        /\ SecondBlock(text).found
        /\ Parses(SecondBlock(text).group)
        /\ strategy = "fallback"

\* C7: prose without brace or fence, one valid JSON object, prose without
\* brace or fence: the normalizer returns the embedded object, which is the
\* span from the first "{" to the last "}".
C7_EmbeddedObjectRecovered ==
    \A c \in EmbeddedCases :
        (Done /\ response_text = c.text)
            => /\ BraceSpanSearch(response_text).group = Compact(c.v)
               /\ pc = "returned"
               /\ result = c.v

\* C8: two disjoint JSON objects in fence-free prose: the span from the
\* first "{" to the last "}" covers both, does not parse, and the default
\* response comes back.
C8_TwoObjectsFallBack ==
    \A c \in TwoObjectCases :
        (Done /\ response_text = c.text)
            => LET span == BraceSpanSearch(response_text).group
               IN  /\ span = Compact(c.v) \o c.mid \o Compact(c.w)
                   /\ ~Parses(span)
                   /\ pc = "returned"
                   /\ result = DefaultResponse

\* the fallback object as the specification spells it out
SpecFallback ==
    JObj(<< <<K_score, JNum(<<"5", "0">>)>>,
            <<K_summary, JStr(FallbackSummary)>>,
            <<K_bugs, JArr(<<>>)>>,
            <<K_optimizations, JArr(<<>>)>>,
            <<K_positives, JArr(<<JStr(FallbackPositive)>>)>>,
            <<K_metrics,
              JObj(<< <<<<"c", "o", "m", "p", "l", "e", "x", "i", "t", "y">>,
                  JStr(<<"m", "e", "d", "i", "u", "m">>)>>,
                      <<<<"r", "e", "a", "d", "a", "b", "i", "l", "i", "t",
                          "y">>, JNum(<<"5", "0">>)>>,
                      <<<<"m", "a", "i", "n", "t", "a", "i", "n", "a", "b",
                          "i", "l", "i", "t", "y">>, JNum(<<"5", "0">>)>>,
                      <<<<"s", "e", "c", "u", "r", "i", "t", "y">>, JNum(<<"5", "0">>)>> >>)>> >>)

\* two fences that do not overlap: a fenced block
HasFencedBlock(text) ==
    \E i \in Fences(text) : \E j \in Fences(text) : j >= i + 3
HasBrace(text) == \E i \in 1..Len(text) : text[i] \in {"{", "}"}

PlainText(text) ==
    /\ loads(text).k = "JSONDecodeError"
    /\ ~HasFencedBlock(text)
    /\ ~HasBrace(text)

\* C9: a text that is not JSON, has no fenced block and holds no brace gives
\* exactly the fixed fallback object.
C9_PlainTextFallsBack ==
    (Done /\ PlainText(response_text))
        => (pc = "returned" /\ result = SpecFallback)

\* a plain text with an opening fence that is never closed
C9_Witness ==
    /\ pc = "returned"
    /\ PlainText(response_text)
    /\ Fences(response_text) # {}
    /\ result = SpecFallback

\* C10: for valid JSON s, the normalizer gives the same result for s wrapped
\* in a json-tagged fence as for s itself, also when s holds three backquotes
\* inside a string or is not an object.
C10_WrappedEqualsBare ==
    \A c \in JsonCases :
        (Done /\ response_text = c.text)
            => LET w == parse_ai_response(Wrap(c.text))
               IN  w.pc = pc /\ w.result = result

(***************************************************************************)
(* String methods of Python on sequences of characters.                    *)
(***************************************************************************)
\* the characters str.strip() removes, on the characters the model uses
StrWs == {" ", "\t", "\n", "\r", "\f"}

UpperCase ==
    <<"A", "B", "C", "D", "E", "F", "G", "H", "I", "J", "K", "L", "M",
      "N", "O", "P", "Q", "R", "S", "T", "U", "V", "W", "X", "Y", "Z">>
LowerCase ==
    <<"a", "b", "c", "d", "e", "f", "g", "h", "i", "j", "k", "l", "m",
      "n", "o", "p", "q", "r", "s", "t", "u", "v", "w", "x", "y", "z">>

LowerChar(c) ==
    IF \E i \in 1..Len(UpperCase) : UpperCase[i] = c
    THEN LowerCase[CHOOSE i \in 1..Len(UpperCase) : UpperCase[i] = c]
    ELSE c

\* str.lower()
Lower(s) == [i \in 1..Len(s) |-> LowerChar(s[i])]

\* str.strip()
Strip(s) ==
    LET keep == {i \in 1..Len(s) : s[i] \notin StrWs}
    IN  IF keep = {} THEN <<>> ELSE SubSeq(s, Min(keep), Max(keep))

\* str.startswith(prefix)
StartsWith(s, prefix) ==
    /\ Len(s) >= Len(prefix)
    /\ SubSeq(s, 1, Len(prefix)) = prefix

\* str.split(sep) for a one-character separator: always at least one item
RECURSIVE Split(_, _)
Split(s, sep) ==
    LET at == {i \in 1..Len(s) : s[i] = sep}
    IN  IF at = {} THEN <<s>>
        ELSE <<SubSeq(s, 1, Min(at) - 1)>>
             \o Split(SubSeq(s, Min(at) + 1, Len(s)), sep)

\* sep.join(items)
RECURSIVE Join(_, _)
Join(items, sep) ==
    IF items = <<>> THEN <<>>
    ELSE IF Len(items) = 1 THEN items[1]
    ELSE items[1] \o <<sep>> \o Join(Tail(items), sep)

(***************************************************************************)
(* generate_code: what becomes of the completion text (app.py 987-997).    *)
(***************************************************************************)
\* a variant that drops the last line of every fenced reply
generated_code_drop_last(content) ==
    LET stripped == Strip(content)
        lines == Split(stripped, NL)
    IN  IF StartsWith(stripped, FENCE)
        THEN Join(SubSeq(lines, 2, Len(lines) - 1), NL)
        ELSE stripped

\* a variant that unwraps a reply holding a fence anywhere
generated_code_any_fence(content) ==
    LET stripped == Strip(content)
        lines == Split(stripped, NL)
    IN  IF \E i \in 1..Len(stripped) : StartsWith(SubSeq(stripped, i, Len(stripped)), FENCE)
        THEN IF Strip(lines[Len(lines)]) = FENCE
             THEN Join(SubSeq(lines, 2, Len(lines) - 1), NL)
             ELSE Join(SubSeq(lines, 2, Len(lines)), NL)
        ELSE stripped

generated_code(content) ==
    LET stripped == Strip(content)
        lines == Split(stripped, NL)
    IN  IF StartsWith(stripped, FENCE)
        THEN IF Strip(lines[Len(lines)]) = FENCE
             THEN Join(SubSeq(lines, 2, Len(lines) - 1), NL)
             ELSE Join(SubSeq(lines, 2, Len(lines)), NL)
        ELSE stripped

(***************************************************************************)
(* Requests to /api/generate and /api/chat, and their answers.             *)
(***************************************************************************)
\* a key the JSON body, or the answer, does not have
Absent == <<"ABSENT">>

\* dict.get(key, default)
Get(field, default) == IF field = Absent THEN default ELSE field

PYTHON == <<"p", "y", "t", "h", "o", "n">>

\* the languages the analysis route accepts (app.py 290)
supported_languages ==
    <<<<"p", "y", "t", "h", "o", "n">>, <<"j", "a", "v", "a", "s", "c", "r", "i", "p", "t">>, <<"j", "a", "v", "a">>, <<"c", "p", "p">>, <<"c">>, <<"t", "y", "p", "e", "s", "c", "r", "i", "p", "t">>, <<"g", "o">>, <<"r", "u", "s", "t">>>>

Supported == {supported_languages[i] : i \in 1..Len(supported_languages)}

LanguageInputs ==
    {Absent, <<>>, <<"p", "y", "t", "h", "o", "n">>, <<"P", "y", "t", "h", "o", "n">>, <<"J", "A", "V", "A">>, <<"g", "o">>, <<"c", " ">>, <<"r", "u", "b", "y">>}

\* the text fields of a request: missing, empty, blank, padded, plain
TextInputs == {Absent, <<>>, <<SP>>, <<SP, "x", NL>>, <<"x">>}

GenerateRequests ==
    [route : {"generate"}, data : BOOLEAN, prompt : TextInputs,
     code : {Absent}, question : {Absent}, language : LanguageInputs,
     api_key : BOOLEAN]

ChatRequests ==
    [route : {"chat"}, data : BOOLEAN, prompt : {Absent},
     code : TextInputs, question : TextInputs, language : LanguageInputs,
     api_key : BOOLEAN]

\* str.format on one of the prompt templates: the template and what is
\* substituted into it
Format(template, language, text, question) ==
    [template |-> template, language |-> language, text |-> text,
     question |-> question]

NoPrompt == Format("none", Absent, Absent, Absent)

\* the outcome of client.chat.completions.create
NoReply == [k |-> "none", content |-> Absent]
Content(text) == [k |-> "content", content |-> text]
RaisedReply == [k |-> "raised", content |-> Absent]

\* jsonify(...) and the status code
Answer(status, error, code, language, prompt, answer, question) ==
    [status |-> status, success |-> (error = "none"), error |-> error,
     code |-> code, language |-> language, prompt |-> prompt,
     answer |-> answer, question |-> question]

Failure(status, error) ==
    Answer(status, error, Absent, Absent, Absent, Absent, Absent)

NoAnswer == Failure(0, "pending")

\* completion texts for /api/generate
FencedReplies ==
    {lead \o open \o inner \o close \o trail :
        lead \in {<<>>, <<SP>>, <<NL>>},
        open \in {FENCE, FENCE \o <<"p", "y">>},
        inner \in {<<>>, <<NL, "x">>, <<NL, "x", NL, NL, "y">>, <<NL, SP, "x", SP>>},
        close \in {<<>>, FENCE, <<NL>> \o FENCE, <<NL, SP>> \o FENCE,
                   <<NL>> \o FENCE \o <<"x">>, <<NL>> \o FENCE \o <<NL, "x">>},
        trail \in {<<>>, <<SP>>, <<NL, SP, NL>>}}

ReplyPieces ==
    {FENCE, FENCE \o <<"p", "y", NL>>, <<NL>> \o FENCE, <<NL>>, <<SP>>, <<"x">>}

FreeReplies ==
    {Flatten(ps) : ps \in UNION {[1..k -> ReplyPieces] : k \in 0..MaxPieces}}

FENCED_EXAMPLE == FENCE \o <<"p", "y", "t", "h", "o", "n">> \o <<NL>> \o <<"p", "r", "i", "n", "t", "(", "1", ")">> \o <<NL>> \o FENCE

Replies == FencedReplies \cup FreeReplies \cup {FENCED_EXAMPLE}

(***************************************************************************)
(* The two handlers.  Each is one action: the request is answered by the   *)
(* time the handler returns, and the completion call inside it either      *)
(* returns a text or raises.  The chat history of /api/chat only adds      *)
(* messages before the rendered prompt and is left out.                    *)
(***************************************************************************)
CompletionOutcomes == {Content(t) : t \in Replies} \cup {RaisedReply}

InitGenerate ==
    /\ gen_request \in GenerateRequests \cup ChatRequests
    /\ gen_prompt = NoPrompt
    /\ gen_reply = NoReply
    /\ gen_response = NoAnswer
    /\ NormalizerOff
    /\ AnalyzeOff
    /\ AuthOff
    /\ ProjectsOff

Rejected(status, error) ==
    /\ gen_response' = Failure(status, error)
    /\ UNCHANGED <<gen_prompt, gen_reply>>

generate_code ==
    /\ gen_request.route = "generate"
    /\ gen_response = NoAnswer
    /\ LET prompt == Strip(Get(gen_request.prompt, <<>>))
           language == Lower(Get(gen_request.language, PYTHON))
       IN  IF ~gen_request.data THEN Rejected(400, "No data provided")
           ELSE IF prompt = <<>> THEN Rejected(400, "No prompt provided")
           ELSE IF ~gen_request.api_key
           THEN Rejected(500, "Groq API key not configured")
           ELSE \E outcome \in CompletionOutcomes :
                  /\ gen_prompt' =
                        Format("CODE_GENERATION_PROMPT", language, prompt, Absent)
                  /\ gen_reply' = outcome
                  /\ gen_response' =
                        IF outcome.k = "raised" THEN Failure(500, "exception")
                        ELSE Answer(200, "none", generated_code(outcome.content),
                                    language, prompt, Absent, Absent)
    /\ UNCHANGED gen_request
    /\ UNCHANGED <<normalizerVars, analyzeVars, authVars, projectVars>>

chat_with_code ==
    /\ gen_request.route = "chat"
    /\ gen_response = NoAnswer
    /\ LET code == Strip(Get(gen_request.code, <<>>))
           language == Lower(Get(gen_request.language, PYTHON))
           question == Strip(Get(gen_request.question, <<>>))
       IN  IF ~gen_request.data THEN Rejected(400, "No data provided")
           ELSE IF code = <<>> THEN Rejected(400, "No code provided")
           ELSE IF question = <<>> THEN Rejected(400, "No question provided")
           ELSE IF ~gen_request.api_key
           THEN Rejected(500, "Groq API key not configured")
           ELSE \E outcome \in CompletionOutcomes :
                  /\ gen_prompt' =
                        Format("CODE_CHAT_PROMPT", language, code, question)
                  /\ gen_reply' = outcome
                  /\ gen_response' =
                        IF outcome.k = "raised" THEN Failure(500, "exception")
                        ELSE Answer(200, "none", Absent, Absent, Absent,
                                    Strip(outcome.content), question)
    /\ UNCHANGED gen_request
    /\ UNCHANGED <<normalizerVars, analyzeVars, authVars, projectVars>>

NextGenerate == generate_code \/ chat_with_code

SpecGenerate == InitGenerate /\ [][NextGenerate]_vars

(***************************************************************************)
(* Properties of /api/generate and /api/chat.                              *)
(***************************************************************************)
Generated ==
    /\ gen_request.route = "generate"
    /\ gen_response.status = 200

\* the positions of the line breaks of a text
Breaks(s) == {i \in 1..Len(s) : s[i] = NL}

\* a text without its first line
DropFirstLine(s) ==
    IF Breaks(s) = {} THEN <<>> ELSE SubSeq(s, Min(Breaks(s)) + 1, Len(s))

\* a text without its last line
DropLastLine(s) ==
    IF Breaks(s) = {} THEN <<>> ELSE SubSeq(s, 1, Max(Breaks(s)) - 1)

\* the last line of a text that holds more than blanks
LastNonEmptyLine(s) ==
    LET last == Max({i \in 1..Len(s) : s[i] \notin StrWs})
        from == Max({0} \cup {i \in Breaks(s) : i < last})
        upto == Min({Len(s) + 1} \cup {i \in Breaks(s) : i > last})
    IN  SubSeq(s, from + 1, upto - 1)

BareClosingFence(line) == Strip(line) = FENCE

\* C11: when the raw reply of the code-generation call begins with a
\* triple-backtick fence, the answer's code is the reply, taken up to its
\* trailing blanks, without its first line, and without its last line too
\* exactly when the last non-empty line of the reply is a bare closing
\* fence; otherwise only the first line is removed.
C11_FencedReplyUnwrapped ==
    (Generated /\ StartsWith(gen_reply.content, FENCE)) =>
        LET raw == gen_reply.content
            rest == DropFirstLine(Strip(raw))
        IN  gen_response.code =
                IF BareClosingFence(LastNonEmptyLine(raw))
                THEN DropLastLine(rest)
                ELSE rest

\* the reply of the claim's example becomes print(1)
C11_Witness ==
    /\ Generated
    /\ gen_reply.content = FENCED_EXAMPLE
    /\ gen_response.code = <<"p", "r", "i", "n", "t", "(", "1", ")">>

\* C12 as stated: a raw reply that does not begin with a triple-backtick
\* fence is the answer's code unchanged, character for character, whatever
\* blanks it begins or ends with and whatever fence appears later in it.
C12_UnfencedReplyUnchanged ==
    (Generated /\ ~StartsWith(gen_reply.content, FENCE)) =>
        gen_response.code = gen_reply.content

\* C12, amended: a raw reply that, once its leading and trailing blanks
\* are stripped, does not begin with a triple-backtick fence is the
\* answer's code as stripped and otherwise unchanged, whatever fence
\* appears later in it.
C12_StrippedUnfencedReplyUnchanged ==
    (Generated /\ ~StartsWith(Strip(gen_reply.content), FENCE)) =>
        LET raw == gen_reply.content
            kept == {i \in 1..Len(raw) : raw[i] \notin StrWs}
        IN  gen_response.code =
                IF kept = {} THEN <<>> ELSE SubSeq(raw, Min(kept), Max(kept))

\* a reply with blanks around it and a fence later in it
C12_Witness ==
    /\ Generated
    /\ gen_reply.content = <<SP, "x", NL>> \o FENCE
    /\ gen_response.code = <<"x", NL>> \o FENCE

\* C14: on the chat and code-generation paths the language substituted into
\* the prompt, and the language the answer echoes back, is always one of
\* the supported languages: an unsupported one is replaced by the default
\* before the prompt is rendered.
C14_LanguageCoercedBeforeUse ==
    /\ gen_prompt.template # "none" => gen_prompt.language \in Supported
    /\ gen_response.language # Absent => gen_response.language \in Supported

(***************************************************************************)
(* /api/analyze (app.py 261-335).  The server handles requests on          *)
(* concurrent threads, so a handler is cut where another thread can run    *)
(* in between: before the completion call returns, before the save, and    *)
(* before the answer is serialised.  frames[r] holds the locals of the     *)
(* handler of request r, heap the dict objects results refer to, and       *)
(* analysis_history the rows of the table.  project_id is copied to the    *)
(* row and nowhere else, and is left out.                                  *)
(***************************************************************************)
\* most requests in flight at once
MaxRequests == 2

\* the request body: user_id 0 stands for a missing, null or zero user_id
AnalyzeRequests ==
    [data : BOOLEAN, code : TextInputs, language : LanguageInputs,
     user_id : {0, 1}]

\* requests that pass every input check
PlainRequests ==
    [data : {TRUE}, code : {<<"x">>}, language : {Absent}, user_id : {0, 1}]

\* completion texts: a full analysis, an object with blanks around it,
\* a JSON array, and prose
AnalysisContents ==
    {Compact(FullAnalysis), <<SP>> \o Compact(ObjA) \o <<NL>>,
     <<"[", "1", "]">>, <<"a", SP>>}

AnalysisOutcomes == {Content(t) : t \in AnalysisContents} \cup {RaisedReply}

K_analysis_id == <<"a", "n", "a", "l", "y", "s", "i", "s", "_", "i", "d">>

\* str(n) for a row id
RECURSIVE Decimal(_)
Decimal(n) ==
    LET digit == <<"0", "1", "2", "3", "4", "5", "6", "7", "8", "9">>
    IN  IF n < 10 THEN <<digit[n + 1]>>
        ELSE Decimal(n \div 10) \o <<digit[(n % 10) + 1]>>

\* lines 278 and 290-292: the language of an analysis
analysis_language_as_given(field) == Lower(Get(field, PYTHON))

analysis_language(field) ==
    LET language == Lower(Get(field, PYTHON))
    IN  IF language \notin Supported THEN PYTHON ELSE language

\* the value parse_ai_response returns is a new object each time
AllocateSharedDefault(h, parsed) ==
    LET shared == {i \in 1..Len(h) :
                      /\ h[i].t = "obj"
                      /\ <<K_summary, JStr(FallbackSummary)>>
                            \in {h[i].o[j] : j \in 1..Len(h[i].o)}}
    IN  IF parsed.strategy = "fallback" /\ shared # {}
        THEN [heap |-> h, ref |-> Min(shared)]
        ELSE [heap |-> Append(h, parsed.result), ref |-> Len(h) + 1]

Allocate(h, parsed) ==
    [heap |-> Append(h, parsed.result), ref |-> Len(h) + 1]

\* jsonify(...) and the status code; data is None when the body has none
AnalyzeAnswer(status, error, data) ==
    [status |-> status, success |-> (error = "none"), error |-> error,
     data |-> data]

NoFrame ==
    [code |-> Absent, language |-> Absent, prompt |-> NoPrompt, calls |-> 0,
     outcome |-> NoReply, normalized |-> FALSE, result |-> 0,
     db_error |-> FALSE, saved |-> 0]

\* a row of analysis_history
AnalysisHistory(id, user_id, code, language, value) ==
    [id |-> id, user_id |-> user_id, code_snippet |-> code,
     language |-> language, result |-> value]

InitRequests(bodies, n) ==
    /\ requests \in [1..n -> bodies]
    /\ GROQ_API_KEY \in BOOLEAN
    /\ apc = [r \in 1..n |-> "received"]
    /\ frames = [r \in 1..n |-> NoFrame]
    /\ heap = <<>>
    /\ analysis_history = <<>>
    /\ answers = [r \in 1..n |-> AnalyzeAnswer(0, "pending", None)]
    /\ NormalizerOff
    /\ GenerateOff
    /\ AuthOff
    /\ ProjectsOff

\* one request, any body
InitAnalyze == InitRequests(AnalyzeRequests, 1)

\* concurrent requests that pass the input checks
InitConcurrent ==
    /\ InitRequests(PlainRequests, MaxRequests)
    /\ GROQ_API_KEY

Answered(r, status, error, data) ==
    /\ answers' = [answers EXCEPT ![r] = AnalyzeAnswer(status, error, data)]
    /\ apc' = [apc EXCEPT ![r] = "answered"]

\* lines 267-302: the input checks, then the prompt and the completion call
analyze_code_key_first(r) ==
    /\ apc[r] = "received"
    /\ LET code == Strip(Get(requests[r].code, <<>>))
           language == analysis_language(requests[r].language)
       IN  IF ~GROQ_API_KEY
           THEN Answered(r, 500, "Groq API key not configured", None)
                /\ UNCHANGED frames
           ELSE IF ~requests[r].data
           THEN Answered(r, 400, "No data provided", None) /\ UNCHANGED frames
           ELSE IF code = <<>>
           THEN Answered(r, 400, "No code provided", None) /\ UNCHANGED frames
           ELSE /\ frames' = [frames EXCEPT ![r] =
                     [@ EXCEPT !.code = code, !.language = language,
                               !.prompt = Format("CODE_ANALYSIS_PROMPT",
                                                 language, code, Absent),
                               !.calls = @ + 1]]
                /\ apc' = [apc EXCEPT ![r] = "calling"]
                /\ UNCHANGED answers
    /\ UNCHANGED <<requests, GROQ_API_KEY, heap, analysis_history>>
    /\ UNCHANGED <<normalizerVars, generateVars, authVars, projectVars>>

analyze_code(r) ==
    /\ apc[r] = "received"
    /\ LET code == Strip(Get(requests[r].code, <<>>))
           language == analysis_language(requests[r].language)
       IN  IF ~requests[r].data
           THEN Answered(r, 400, "No data provided", None) /\ UNCHANGED frames
           ELSE IF code = <<>>
           THEN Answered(r, 400, "No code provided", None) /\ UNCHANGED frames
           ELSE IF ~GROQ_API_KEY
           THEN Answered(r, 500, "Groq API key not configured", None)
                /\ UNCHANGED frames
           ELSE /\ frames' = [frames EXCEPT ![r] =
                     [@ EXCEPT !.code = code, !.language = language,
                               !.prompt = Format("CODE_ANALYSIS_PROMPT",
                                                 language, code, Absent),
                               !.calls = @ + 1]]
                /\ apc' = [apc EXCEPT ![r] = "calling"]
                /\ UNCHANGED answers
    /\ UNCHANGED <<requests, GROQ_API_KEY, heap, analysis_history>>
    /\ UNCHANGED <<normalizerVars, generateVars, authVars, projectVars>>

\* lines 161-181 and 302-305: the completion call returns or raises; the
\* text is stripped and normalized; an exception becomes the 500 answer of
\* lines 331-335
analyze_code_with_ai_defaulting(r) ==
    /\ apc[r] = "calling"
    /\ \E outcome \in AnalysisOutcomes :
         LET parsed == IF outcome.k = "raised"
                       THEN Returned(DefaultResponse, <<>>, "fallback")
                       ELSE parse_ai_response(Strip(outcome.content))
             new == Allocate(heap, parsed)
         IN  /\ heap' = new.heap
             /\ frames' = [frames EXCEPT ![r] =
                   [@ EXCEPT !.outcome = outcome, !.normalized = TRUE,
                             !.result = new.ref]]
             /\ apc' = [apc EXCEPT ![r] =
                   IF requests[r].user_id # 0 THEN "saving" ELSE "responding"]
             /\ UNCHANGED answers
    /\ UNCHANGED <<requests, GROQ_API_KEY, analysis_history>>
    /\ UNCHANGED <<normalizerVars, generateVars, authVars, projectVars>>

analyze_code_with_ai(r) ==
    /\ apc[r] = "calling"
    /\ \E outcome \in AnalysisOutcomes :
         IF outcome.k = "raised"
         THEN /\ Answered(r, 500, "Error analyzing code", None)
              /\ frames' = [frames EXCEPT ![r] = [@ EXCEPT !.outcome = outcome]]
              /\ UNCHANGED heap
         ELSE LET parsed == parse_ai_response(Strip(outcome.content))
                  new == Allocate(heap, parsed)
              IN  IF parsed.pc = "raised"
                  THEN /\ Answered(r, 500, "Error analyzing code", None)
                       /\ frames' = [frames EXCEPT ![r] =
                             [@ EXCEPT !.outcome = outcome, !.normalized = TRUE]]
                       /\ UNCHANGED heap
                  ELSE /\ heap' = new.heap
                       /\ frames' = [frames EXCEPT ![r] =
                             [@ EXCEPT !.outcome = outcome, !.normalized = TRUE,
                                       !.result = new.ref]]
                       /\ apc' = [apc EXCEPT ![r] =
                             IF requests[r].user_id # 0 THEN "saving"
                             ELSE "responding"]
                       /\ UNCHANGED answers
    /\ UNCHANGED <<requests, GROQ_API_KEY, analysis_history>>
    /\ UNCHANGED <<normalizerVars, generateVars, authVars, projectVars>>

\* lines 305-324: the save, inside its own try.  result.get on a value
\* that is not a dict raises; the commit succeeds or raises; either
\* exception is printed and dropped.
SaveCommitted(r) ==
    LET ref == frames[r].result
        id == Len(analysis_history) + 1
    IN  /\ analysis_history' = Append(analysis_history,
              AnalysisHistory(id, requests[r].user_id, frames[r].code,
                              frames[r].language, heap[ref]))
        /\ heap' = [heap EXCEPT ![ref] =
              JObj(DictSet(@.o, K_analysis_id, JNum(Decimal(id))))]
        /\ frames' = [frames EXCEPT ![r] = [@ EXCEPT !.saved = id]]

\* a variant without the inner try: a failed save fails the request
save_analysis_unguarded(r) ==
    /\ apc[r] = "saving"
    /\ \/ /\ heap[frames[r].result].t = "obj"
          /\ SaveCommitted(r)
          /\ apc' = [apc EXCEPT ![r] = "responding"]
          /\ UNCHANGED answers
       \/ /\ Answered(r, 500, "Database save error", None)
          /\ frames' = [frames EXCEPT ![r] = [@ EXCEPT !.db_error = TRUE]]
          /\ UNCHANGED <<heap, analysis_history>>
    /\ UNCHANGED <<requests, GROQ_API_KEY>>
    /\ UNCHANGED <<normalizerVars, generateVars, authVars, projectVars>>

save_analysis(r) ==
    /\ apc[r] = "saving"
    /\ \/ /\ heap[frames[r].result].t = "obj"
          /\ SaveCommitted(r)
       \/ /\ frames' = [frames EXCEPT ![r] = [@ EXCEPT !.db_error = TRUE]]
          /\ UNCHANGED <<heap, analysis_history>>
    /\ apc' = [apc EXCEPT ![r] = "responding"]
    /\ UNCHANGED <<requests, GROQ_API_KEY, answers>>
    /\ UNCHANGED <<normalizerVars, generateVars, authVars, projectVars>>

\* lines 326-329: the answer, serialised from the result as it is now
jsonify_result(r) ==
    /\ apc[r] = "responding"
    /\ Answered(r, 200, "none", heap[frames[r].result])
    /\ UNCHANGED <<requests, GROQ_API_KEY, frames, heap, analysis_history>>
    /\ UNCHANGED <<normalizerVars, generateVars, authVars, projectVars>>

Handling(r) == r \in DOMAIN requests

NextAnalyze ==
    \/ \E r \in 1..MaxRequests : Handling(r) /\ analyze_code(r)
    \/ \E r \in 1..MaxRequests : Handling(r) /\ analyze_code_with_ai(r)
    \/ \E r \in 1..MaxRequests : Handling(r) /\ save_analysis(r)
    \/ \E r \in 1..MaxRequests : Handling(r) /\ jsonify_result(r)

SpecAnalyze == InitAnalyze /\ [][NextAnalyze]_vars

SpecConcurrent == InitConcurrent /\ [][NextAnalyze]_vars

(***************************************************************************)
(* Properties of /api/analyze.                                             *)
(***************************************************************************)
\* what the normalizer makes of the completion text of request r
Normalized(r) == parse_ai_response(Strip(frames[r].outcome.content)).result

PassesInputChecks(r) ==
    /\ requests[r].data
    /\ Strip(Get(requests[r].code, <<>>)) # <<>>
    /\ GROQ_API_KEY

\* C13: on the analysis path, whatever language string is supplied, the
\* language in the rendered prompt and in the saved row is one of the
\* supported languages: the supplied one, lower-cased, when that is
\* supported, and python otherwise; and a request that passes the other
\* input checks reaches the completion call whatever its language.
C13_AnalysisLanguageSupported ==
    \A r \in DOMAIN requests :
        LET given == requests[r].language
            expected ==
                IF given = Absent THEN PYTHON
                ELSE IF \E l \in Supported : Lower(given) = l
                THEN CHOOSE l \in Supported : Lower(given) = l
                ELSE PYTHON
        IN  /\ frames[r].calls > 0 =>
                /\ frames[r].prompt.language = expected
                /\ frames[r].prompt.language \in Supported
            /\ \A i \in 1..Len(analysis_history) :
                /\ analysis_history[i].language = expected
                /\ analysis_history[i].language \in Supported
            /\ (apc[r] # "received" /\ PassesInputChecks(r)) =>
                frames[r].calls = 1

\* an unsupported language and an upper-case one, each saved with the
\* analysis
C13_Witness ==
    /\ requests[1].language \in {<<"r", "u", "b", "y">>, <<"J", "A", "V", "A">>}
    /\ Len(analysis_history) = 1
    /\ analysis_history[1].language =
          IF requests[1].language = <<"r", "u", "b", "y">> THEN PYTHON ELSE <<"j", "a", "v", "a">>
    /\ answers[1].status = 200

\* C15: when a request carries a user_id and saving its result fails, the
\* request is still answered with success and the normalized result,
\* without an analysis_id, as when no save is attempted.
C15_FailedSaveStillAnswers ==
    \A r \in DOMAIN requests :
        (apc[r] = "answered" /\ requests[r].user_id # 0 /\ frames[r].db_error) =>
            /\ answers[r].status = 200
            /\ answers[r].success
            /\ answers[r].data = Normalized(r)
            /\ answers[r].data.t = "obj" =>
                  K_analysis_id \notin Keys(answers[r].data.o)
            /\ frames[r].saved = 0

\* a full analysis whose save failed, answered
C15_Witness ==
    /\ apc[1] = "answered"
    /\ requests[1].user_id # 0
    /\ frames[1].db_error
    /\ answers[1].success
    /\ answers[1].data = FullAnalysis

\* C16: when the completion call fails, the request is answered with a
\* failure (success false, status 500, a message), the normalizer is not
\* run, no row is saved, and the call is not repeated: no request makes
\* more than one completion call.
C16_FailedCompletionFails ==
    \A r \in DOMAIN requests :
        /\ frames[r].calls <= 1
        /\ frames[r].outcome.k = "raised" =>
            /\ apc[r] = "answered"
            /\ answers[r].status = 500
            /\ ~answers[r].success
            /\ answers[r].error = "Error analyzing code"
            /\ answers[r].data = None
            /\ ~frames[r].normalized
            /\ frames[r].saved = 0
            /\ analysis_history = <<>>
            /\ frames[r].calls = 1

\* a request with a user_id whose completion call raised
C16_Witness ==
    /\ frames[1].outcome.k = "raised"
    /\ requests[1].user_id # 0
    /\ answers[1].status = 500

\* C18: the completion call is reached only after the input checks pass,
\* and the checks come in this order: a missing or empty body is answered
\* 400, then code that is empty after trimming is answered 400, then a
\* missing API key is answered 500; a request rejected by a check makes no
\* completion call and saves no row.
C18_InputChecksInOrder ==
    \A r \in DOMAIN requests :
        LET nodata == ~requests[r].data
            nocode == Strip(Get(requests[r].code, <<>>)) = <<>>
            nokey == ~GROQ_API_KEY
            rejected(status, error) ==
                /\ apc[r] = "answered"
                /\ answers[r] = AnalyzeAnswer(status, error, None)
                /\ frames[r] = NoFrame
                /\ heap = <<>>
                /\ analysis_history = <<>>
        IN  /\ frames[r].calls > 0 => ~nodata /\ ~nocode /\ ~nokey
            /\ apc[r] # "received" =>
                /\ nodata => rejected(400, "No data provided")
                /\ (~nodata /\ nocode) => rejected(400, "No code provided")
                /\ (~nodata /\ ~nocode /\ nokey) =>
                      rejected(500, "Groq API key not configured")

\* a request with neither a body nor an API key is answered 400
C18_Witness ==
    /\ ~requests[1].data
    /\ ~GROQ_API_KEY
    /\ answers[1].status = 400
    /\ frames[1].calls = 0

\* C17: under any interleaving of concurrent requests, the data of each
\* answer is what the normalizer makes of that request's own completion
\* text, with the id of that request's own saved row as analysis_id when
\* it saved one and with no analysis_id otherwise; the rows of different
\* requests have different ids.
C17_AnswersIndependent ==
    \A r \in DOMAIN requests :
        /\ (apc[r] = "answered" /\ answers[r].status = 200) =>
              answers[r].data =
                  IF frames[r].saved = 0 THEN Normalized(r)
                  ELSE JObj(DictSet(Normalized(r).o, K_analysis_id,
                                    JNum(Decimal(frames[r].saved))))
        /\ frames[r].saved # 0 =>
              /\ analysis_history[frames[r].saved].id = frames[r].saved
              /\ analysis_history[frames[r].saved].result = Normalized(r)
              /\ \A q \in DOMAIN requests \ {r} :
                    frames[q].saved # frames[r].saved

\* two requests both fall back; the first saved its result and the second,
\* answered after that save, carries no analysis_id
C17_Witness ==
    /\ frames[1].saved # 0
    /\ frames[1].outcome.content = <<"a", SP>>
    /\ frames[2].outcome.content = <<"a", SP>>
    /\ frames[2].result > frames[1].result
    /\ requests[2].user_id = 0
    /\ answers[1].status = 200
    /\ answers[2].status = 200
    /\ answers[2].data = DefaultResponse

(***************************************************************************)
(* Accounts: register, login, get_current_user, logout (app.py 538-654)    *)
(* over the users and user_settings tables (models.py 14-47, 136-144).     *)
(* The calls come from one client, so they share one session; register    *)
(* handlers run concurrently and are cut at their two commits.  calls is   *)
(* what the client saw: each answered call, in the order of the answers.   *)
(* The name of a user is stored and returned and nothing reads it; it is   *)
(* left out.                                                               *)
(***************************************************************************)
\* most calls the client makes
MaxCalls == 3

\* register: the shortest password accepted (app.py 554)
MIN_PASSWORD == 6

\* bcrypt.hashpw / bcrypt.checkpw: a hash matches the password it was made of
Hash(password) == <<"bcrypt">> \o password

\* models.py 18-24: a row of users
User(id, provider, provider_id, email, password_hash) ==
    [id |-> id, provider |-> provider, provider_id |-> provider_id,
     email |-> email, password_hash |-> password_hash]

\* a table declared without the unique constraint
NoUniqueConstraint(rows, row) == FALSE

\* models.py 44-47: UniqueConstraint('provider', 'provider_id')
unique_provider_user(rows, row) ==
    \E i \in 1..Len(rows) :
        /\ rows[i].provider = row.provider
        /\ rows[i].provider_id = row.provider_id

\* User.query.filter_by(email=email, provider='email')
EmailUsers(email) ==
    {i \in 1..Len(users) :
        users[i].email = email /\ users[i].provider = "email"}

SECRET == <<"s", "e", "c", "r", "e", "t">>

\* request bodies of register and login: data is whether there is a body
Credentials ==
    [data : BOOLEAN,
     email : {Absent, <<"a">>, <<SP, "A", SP>>, <<"b">>},
     password : {Absent, <<"p">>, SECRET, <<"S", "E", "C", "R", "E", "T">>}]

\* an answered call as the client saw it: user is the id of the user in the
\* answer (0 when there is none), email the address of that user
Call(op, status, error, user, email) ==
    [op |-> op, status |-> status, error |-> error, user |-> user,
     email |-> email]

\* accounts that exist before the client's first call: one made by an
\* OAuth sign-in (app.py 184-214) and one registered with a password
GoogleUser(id) == User(id, "google", <<"g", "1">>, <<"a">>, Absent)
RegisteredUser(id) == User(id, "email", <<"b">>, <<"b">>, Hash(SECRET))

InitAuth ==
    /\ users \in {<<>>, <<GoogleUser(1)>>, <<RegisteredUser(1)>>,
                  <<GoogleUser(1), RegisteredUser(2)>>}
    /\ user_settings = [i \in 1..Len(users) |-> users[i].id]
    /\ session = 0
    /\ registering = <<>>
    /\ started = 0
    /\ calls = <<>>
    /\ NormalizerOff
    /\ GenerateOff
    /\ AnalyzeOff
    /\ ProjectsOff

\* the locals of a register handler; pc "done" once it has answered
Registering(pc_, email, password, user_id) ==
    [pc |-> pc_, email |-> email, password |-> password, user_id |-> user_id]

Finished == Registering("done", <<>>, <<>>, 0)

Answer400(op, error) == calls' = Append(calls, Call(op, 400, error, 0, <<>>))

\* lines 541-560: the input checks and the 'already registered' check
register ==
    /\ started < MaxCalls
    /\ started' = started + 1
    /\ \E body \in Credentials :
         LET email == Lower(Strip(Get(body.email, <<>>)))
             password == Get(body.password, <<>>)
         IN  IF ~body.data
             THEN Answer400("register", "No data provided")
                  /\ UNCHANGED registering
             ELSE IF email = <<>> \/ password = <<>>
             THEN Answer400("register", "Email and password are required")
                  /\ UNCHANGED registering
             ELSE IF Len(password) < MIN_PASSWORD
             THEN Answer400("register", "Password must be at least 6 characters")
                  /\ UNCHANGED registering
             ELSE IF EmailUsers(email) # {}
             THEN Answer400("register", "Email already registered")
                  /\ UNCHANGED registering
             ELSE /\ registering' = Append(registering,
                        Registering("add_user", email, password, 0))
                  /\ UNCHANGED calls
    /\ UNCHANGED <<users, user_settings, session>>
    /\ UNCHANGED <<normalizerVars, generateVars, analyzeVars, projectVars>>

\* lines 562-594: rollback and the 500 answer
RegistrationFailed(h, error) ==
    /\ calls' = Append(calls,
          Call("register", 500, error, 0, registering[h].email))
    /\ registering' = [registering EXCEPT ![h] = Finished]

\* lines 564-573: the user row and its commit, which the database refuses
\* when the row breaks the unique constraint and which can fail otherwise
register_add_user(h) ==
    /\ registering[h].pc = "add_user"
    /\ LET email == registering[h].email
           user == User(Len(users) + 1, "email", email, email,
                        Hash(registering[h].password))
       IN  IF unique_provider_user(users, user)
           THEN /\ RegistrationFailed(h, "Registration failed: IntegrityError")
                /\ UNCHANGED users
           ELSE \/ /\ users' = Append(users, user)
                   /\ registering' = [registering EXCEPT ![h] =
                         Registering("add_settings", email, <<>>, user.id)]
                   /\ UNCHANGED calls
                \/ /\ RegistrationFailed(h, "Registration failed: OperationalError")
                   /\ UNCHANGED users
    /\ UNCHANGED <<user_settings, session, started>>
    /\ UNCHANGED <<normalizerVars, generateVars, analyzeVars, projectVars>>

\* a variant that signs the new user in
register_add_settings_signing_in(h) ==
    /\ registering[h].pc = "add_settings"
    /\ \/ /\ user_settings' = Append(user_settings, registering[h].user_id)
          /\ calls' = Append(calls,
                Call("register", 200, "none", registering[h].user_id,
                     registering[h].email))
          /\ registering' = [registering EXCEPT ![h] = Finished]
          /\ session' = registering[h].user_id
       \/ /\ RegistrationFailed(h, "Registration failed: OperationalError")
          /\ UNCHANGED <<user_settings, session>>
    /\ UNCHANGED <<users, started>>
    /\ UNCHANGED <<normalizerVars, generateVars, analyzeVars, projectVars>>

\* lines 575-590: the settings row, its commit, and the answer
register_add_settings(h) ==
    /\ registering[h].pc = "add_settings"
    /\ \/ /\ user_settings' = Append(user_settings, registering[h].user_id)
          /\ calls' = Append(calls,
                Call("register", 200, "none", registering[h].user_id,
                     registering[h].email))
          /\ registering' = [registering EXCEPT ![h] = Finished]
       \/ /\ RegistrationFailed(h, "Registration failed: OperationalError")
          /\ UNCHANGED user_settings
    /\ UNCHANGED <<users, session, started>>
    /\ UNCHANGED <<normalizerVars, generateVars, analyzeVars, projectVars>>

\* lines 597-638; the commit of last_login can fail, and then the handler
\* raises before it touches the session
login ==
    /\ started < MaxCalls
    /\ started' = started + 1
    /\ \E body \in Credentials :
         LET email == Lower(Strip(Get(body.email, <<>>)))
             password == Get(body.password, <<>>)
             user == users[Min(EmailUsers(email))]
             answer(status, error) ==
                 /\ calls' = Append(calls, Call("login", status, error, 0, <<>>))
                 /\ UNCHANGED session
         IN  IF ~body.data THEN answer(400, "No data provided")
             ELSE IF email = <<>> \/ password = <<>>
             THEN answer(400, "Email and password are required")
             ELSE IF EmailUsers(email) = {}
             THEN answer(401, "Invalid email or password")
             ELSE IF user.password_hash = Absent
                     \/ user.password_hash # Hash(password)
             THEN answer(401, "Invalid email or password")
             ELSE \/ /\ session' = user.id
                     /\ calls' = Append(calls,
                           Call("login", 200, "none", user.id, user.email))
                  \/ answer(500, "OperationalError")
    /\ UNCHANGED <<users, user_settings, registering>>
    /\ UNCHANGED <<normalizerVars, generateVars, analyzeVars, projectVars>>

\* lines 641-647
get_current_user ==
    /\ started < MaxCalls
    /\ started' = started + 1
    /\ calls' = Append(calls,
          Call("get_current_user", 200, "none", session,
               IF session = 0 THEN <<>>
               ELSE users[CHOOSE i \in 1..Len(users) : users[i].id = session].email))
    /\ UNCHANGED <<users, user_settings, session, registering>>
    /\ UNCHANGED <<normalizerVars, generateVars, analyzeVars, projectVars>>

\* lines 650-654
logout ==
    /\ started < MaxCalls
    /\ started' = started + 1
    /\ session' = 0
    /\ calls' = Append(calls, Call("logout", 200, "none", 0, <<>>))
    /\ UNCHANGED <<users, user_settings, registering>>
    /\ UNCHANGED <<normalizerVars, generateVars, analyzeVars, projectVars>>

NextAuth ==
    \/ register
    \/ \E h \in 1..MaxCalls : h \in DOMAIN registering /\ register_add_user(h)
    \/ \E h \in 1..MaxCalls : h \in DOMAIN registering /\ register_add_settings(h)
    \/ login
    \/ get_current_user
    \/ logout

SpecAuth == InitAuth /\ [][NextAuth]_vars

(***************************************************************************)
(* Properties of the accounts.                                             *)
(***************************************************************************)
\* the calls that change the session: a successful login, and logout
SessionChanging(call) ==
    \/ call.op = "login" /\ call.status = 200
    \/ call.op = "logout"

\* the user the session holds after the calls of log, 0 for none, going
\* by the answers alone
Holder(log) ==
    LET changes == {i \in 1..Len(log) : SessionChanging(log[i])}
    IN  IF changes = {} THEN 0
        ELSE IF log[Max(changes)].op = "login" THEN log[Max(changes)].user
        ELSE 0

\* C19: over any sequence of register, login, logout and get_current_user
\* calls in one session, the session holds a user exactly when the last
\* session-changing call was a successful login, and then it holds the
\* user of that login; so register never signs a user in, a login answered
\* 400 or 401 leaves the session as it was, and get_current_user reports
\* the user of the last successful login unless a logout came after it.
C19_SessionFollowsLogin ==
    /\ session = Holder(calls)
    /\ \A i \in 1..Len(calls) :
          /\ calls[i].op = "get_current_user" =>
                calls[i].user = Holder(SubSeq(calls, 1, i - 1))
          /\ (calls[i].op = "login" /\ calls[i].status = 200) =>
                calls[i].user # 0

\* a successful registration, a rejected login, and get_current_user
\* reporting no user
C19_Witness ==
    /\ Len(calls) = 3
    /\ calls[1].op = "register" /\ calls[1].status = 200
    /\ calls[2].op = "login" /\ calls[2].status = 401
    /\ calls[3].op = "get_current_user" /\ calls[3].user = 0

\* the trimmed, lower-cased addresses the model's requests carry
Addresses == {Lower(Strip(Get(e, <<>>))) : e \in {b.email : b \in Credentials}}

\* C20: after any interleaving of register requests, two concurrent
\* requests for one address that both passed the 'already registered'
\* check included, there is at most one user with provider 'email' for each
\* trimmed, lower-cased address, and at most one register request for that
\* address was answered with success.
C20_OneEmailUserPerAddress ==
    \A e \in Addresses :
        /\ Cardinality(EmailUsers(e)) <= 1
        /\ Cardinality({i \in 1..Len(calls) :
                           /\ calls[i].op = "register"
                           /\ calls[i].status = 200
                           /\ calls[i].email = e}) <= 1

\* two requests for one address passed the check; one was answered with
\* success and the other was refused by the database
C20_Witness ==
    \E i, j \in 1..Len(calls) :
        /\ calls[i] = Call("register", 200, "none", calls[i].user, <<"a">>)
        /\ calls[j] = Call("register", 500,
                           "Registration failed: IntegrityError", 0, <<"a">>)

(***************************************************************************)
(* Projects: create_project, archive_project, unarchive_project and        *)
(* get_projects (app.py 659-742) over the projects table (models.py        *)
(* 63-93).  The table of the database has the column is_archived once      *)
(* migrate_add_archived.py has run, with FALSE as its default; the Project *)
(* class maps the columns of ProjectColumns and no other.  A handler that  *)
(* raises is answered 500 by the framework.  project_calls is what the     *)
(* client saw, in order.  delete_project is left out.                      *)
(***************************************************************************)
\* models.py 67-73: the columns the Project class maps
ProjectColumns ==
    {"id", "user_id", "name", "description", "language", "created_at",
     "updated_at"}

\* a row of projects as the database holds it
Project(id, user_id, is_archived) ==
    [id |-> id, user_id |-> user_id, is_archived |-> is_archived]

\* Query.filter_by(**criteria): a keyword that names no mapped column raises
\* InvalidRequestError
FilterByRaises(criteria) == ~(criteria \subseteq ProjectColumns)

\* setting an attribute of a loaded row and committing: a mapped column is
\* written to the table, any other attribute stays on the Python object
\* and is gone with it
SetAndCommit(rows, id, column, value) ==
    IF column \in ProjectColumns
    THEN [i \in 1..Len(rows) |->
            IF rows[i].id = id THEN [rows[i] EXCEPT ![column] = value]
            ELSE rows[i]]
    ELSE rows

\* Project.query.get(project_id)
ProjectIds == {projects[i].id : i \in 1..Len(projects)}

\* an answered call: project is the id in the URL or of the created row
\* (0 for none), archived the flag of get_projects, listed the ids in the
\* data of its answer
ProjectCall(op, status, project, archived, listed) ==
    [op |-> op, status |-> status, project |-> project,
     archived |-> archived, listed |-> listed]

InitProjects ==
    /\ projects = <<>>
    /\ project_calls = <<>>
    /\ NormalizerOff
    /\ GenerateOff
    /\ AnalyzeOff
    /\ AuthOff

ProjectAnswer(call) ==
    /\ Len(project_calls) < MaxCalls
    /\ project_calls' = Append(project_calls, call)

\* lines 675-695; user_id 0 stands for a body without user_id or name
create_project ==
    /\ \E user_id \in {0, 1} :
         IF user_id = 0
         THEN /\ ProjectAnswer(ProjectCall("create_project", 400, 0, FALSE, {}))
              /\ UNCHANGED projects
         ELSE LET id == Len(projects) + 1
              IN  /\ projects' = Append(projects, Project(id, user_id, FALSE))
                  /\ ProjectAnswer(ProjectCall("create_project", 200, id, FALSE, {}))
    /\ UNCHANGED <<normalizerVars, generateVars, analyzeVars, authVars>>

\* lines 711-725 and 728-742: archive_project sets is_archived to TRUE,
\* unarchive_project to FALSE
SetArchived(op, project_id, value) ==
    IF project_id \notin ProjectIds
    THEN /\ ProjectAnswer(ProjectCall(op, 404, project_id, FALSE, {}))
         /\ UNCHANGED projects
    ELSE /\ projects' = SetAndCommit(projects, project_id, "is_archived", value)
         /\ ProjectAnswer(ProjectCall(op, 200, project_id, FALSE, {}))

archive_project ==
    /\ \E project_id \in 1..MaxCalls :
         SetArchived("archive_project", project_id, TRUE)
    /\ UNCHANGED <<normalizerVars, generateVars, analyzeVars, authVars>>

unarchive_project ==
    /\ \E project_id \in 1..MaxCalls :
         SetArchived("unarchive_project", project_id, FALSE)
    /\ UNCHANGED <<normalizerVars, generateVars, analyzeVars, authVars>>

\* lines 659-672; user_id 0 stands for a query without user_id
get_projects ==
    /\ \E user_id \in {0, 1}, archived \in BOOLEAN :
         IF user_id = 0
         THEN ProjectAnswer(ProjectCall("get_projects", 400, 0, archived, {}))
         ELSE IF FilterByRaises({"user_id", "is_archived"})
         THEN ProjectAnswer(ProjectCall("get_projects", 500, 0, archived, {}))
         ELSE ProjectAnswer(ProjectCall("get_projects", 200, 0, archived,
                 {projects[i].id : i \in
                     {j \in 1..Len(projects) :
                         /\ projects[j].user_id = user_id
                         /\ projects[j].is_archived = archived}}))
    /\ UNCHANGED projects
    /\ UNCHANGED <<normalizerVars, generateVars, analyzeVars, authVars>>

NextProjects ==
    \/ create_project
    \/ archive_project
    \/ unarchive_project
    \/ get_projects

SpecProjects == InitProjects /\ [][NextProjects]_vars

(***************************************************************************)
(* Properties of the projects.                                             *)
(***************************************************************************)
\* the projects created by the calls of log
Created(log) ==
    {log[i].project : i \in {j \in 1..Len(log) :
        log[j].op = "create_project" /\ log[j].status = 200}}

\* whether the last archive or unarchive call of log on project p, if any,
\* was an archive
LastWasArchive(log, p) ==
    LET ops == {i \in 1..Len(log) :
                   /\ log[i].op \in {"archive_project", "unarchive_project"}
                   /\ log[i].status = 200
                   /\ log[i].project = p}
    IN  ops # {} /\ log[Max(ops)].op = "archive_project"

\* C21: for any sequence of create, archive and unarchive calls, get_projects
\* for the user lists, with archived=true, exactly the existing projects
\* whose last archive or unarchive call was an archive, and with
\* archived=false exactly the others, a new project among them; so every
\* existing project is in one of the two listings and not in both.
C21_ListedByLastArchiveCall ==
    \A c \in 1..Len(project_calls) :
        LET call == project_calls[c]
            before == SubSeq(project_calls, 1, c - 1)
        IN  (call.op = "get_projects" /\ call.status # 400) =>
                /\ call.status = 200
                /\ call.listed =
                      {p \in Created(before) :
                          LastWasArchive(before, p) = call.archived}

(***************************************************************************)
(* A failed registration.                                                  *)
(***************************************************************************)
\* the user rows a register handler has committed and is still working on
BeingRegistered ==
    {registering[h].user_id : h \in {k \in 1..Len(registering) :
        registering[k].pc = "add_settings"}}

\* C22: a register request answered with a failure leaves no user row of
\* its own behind: once a request for an address was answered 500
\* 'Registration failed', every stored user with provider 'email' and that
\* address is a fully registered one, with its settings row, or belongs to
\* another request still at work; so the address can be registered again.
C22_FailedRegisterLeavesNoUser ==
    \A c \in 1..Len(calls) :
        (calls[c].op = "register" /\ calls[c].status = 500) =>
            \A i \in EmailUsers(calls[c].email) :
                \/ users[i].id \in {user_settings[j] : j \in 1..Len(user_settings)}
                \/ users[i].id \in BeingRegistered

====
